---------------------------- MODULE Spec2Model ----------------------------
(***************************************************************************)
(* Model of scripts/performance-test.py (class PasswordCrackingBenchmark   *)
(* and main).                                                              *)
(*                                                                         *)
(* Two specifications share the module:                                    *)
(*   Spec      - one top-level run of main(): host facts, tool probes,     *)
(*               benchmarks, the attack runner with its fixture files,     *)
(*               save_results, print_summary and the exit paths.           *)
(*   ParseSpec - the functions of their inputs alone (parse_hashcat_speed, *)
(*               parse_john_speed, parse_hashcat_benchmark,                *)
(*               parse_john_benchmark, gather_system_info) applied to      *)
(*               bounded inputs.                                           *)
(*                                                                         *)
(* Python strings are sequences of one-character strings.  Python floats   *)
(* are decimal values m * 10^e kept exactly (IEEE rounding of a product is *)
(* not modelled), plus the infinities float() can return.                  *)
(***************************************************************************)
EXTENDS Integers, Sequences, FiniteSets, TLC

\* ------------------------------------------------------------ bounds
\* Longest string handed to a speed normaliser in ParseSpec.
MaxStrLen == 4
\* Most whitespace-separated tokens in one generated output line.
MaxToks == 3
\* Most lines in one generated benchmark output.
MaxLines == 2
\* Largest elapsed wall-clock time (ticks) of one attack invocation.
MaxElapsed == 1

\* ------------------------------------------------------------ strings
Digits == {"0", "1", "2", "3", "4", "5", "6", "7", "8", "9"}

DigitVal(c) ==
  CASE c = "0" -> 0 [] c = "1" -> 1 [] c = "2" -> 2 [] c = "3" -> 3
    [] c = "4" -> 4 [] c = "5" -> 5 [] c = "6" -> 6 [] c = "7" -> 7
    [] c = "8" -> 8 [] c = "9" -> 9

\* str.lower() on one character (the letters that occur in the inputs).
LowerChar(c) ==
  CASE c = "K" -> "k" [] c = "M" -> "m" [] c = "G" -> "g" [] c = "T" -> "t"
    [] c = "C" -> "c" [] c = "S" -> "s" [] c = "H" -> "h" [] c = "R" -> "r"
    [] c = "I" -> "i" [] c = "N" -> "n" [] c = "F" -> "f" [] c = "A" -> "a"
    [] c = "Y" -> "y" [] OTHER -> c

Lower(s) == [i \in 1..Len(s) |-> LowerChar(s[i])]

IsSpace(c) == c \in {" ", "\t"}

\* s[a..b] (1-based, inclusive); empty when a > b.
Slice(s, a, b) == IF a > b THEN <<>> ELSE SubSeq(s, a, b)

\* pat occurs in s starting at position p.
MatchesAt(s, pat, p) ==
  /\ p >= 1
  /\ p + Len(pat) - 1 <= Len(s)
  /\ \A k \in 1..Len(pat) : s[p + k - 1] = pat[k]

\* Python's `pat in s`.
Contains(s, pat) == \E p \in 1..(Len(s) + 1) : MatchesAt(s, pat, p)

\* str.strip(): leading and trailing whitespace removed.
RECURSIVE LStrip(_)
LStrip(s) == IF s # <<>> /\ IsSpace(Head(s)) THEN LStrip(Tail(s)) ELSE s

RECURSIVE RStrip(_)
RStrip(s) ==
  IF s # <<>> /\ IsSpace(s[Len(s)]) THEN RStrip(Slice(s, 1, Len(s) - 1)) ELSE s

Strip(s) == RStrip(LStrip(s))

\* str.split(sep) for a one-character separator: every field, empty ones kept.
RECURSIVE SplitOn(_, _)
SplitOn(s, sep) ==
  IF \A i \in 1..Len(s) : s[i] # sep
  THEN <<s>>
  ELSE LET p == CHOOSE i \in 1..Len(s) :
                   s[i] = sep /\ \A k \in 1..(i - 1) : s[k] # sep
       IN <<Slice(s, 1, p - 1)>> \o SplitOn(Slice(s, p + 1, Len(s)), sep)

\* str.split() without arguments: runs of whitespace separate, no empty field.
RECURSIVE SplitWs(_)
SplitWs(s) ==
  LET t == LStrip(s)
  IN IF t = <<>> THEN <<>>
     ELSE LET n == IF \E i \in 1..Len(t) : IsSpace(t[i])
                   THEN (CHOOSE i \in 1..Len(t) :
                           IsSpace(t[i]) /\ \A k \in 1..(i - 1) : ~IsSpace(t[k])) - 1
                   ELSE Len(t)
          IN <<Slice(t, 1, n)>> \o SplitWs(Slice(t, n + 1, Len(t)))

\* The strings of seqs joined by sep (str.join).
RECURSIVE Join(_, _)
Join(seqs, sep) ==
  IF seqs = <<>> THEN <<>>
  ELSE IF Len(seqs) = 1 THEN seqs[1]
  ELSE seqs[1] \o sep \o Join(Tail(seqs), sep)

\* All sequences over S of length lo..hi.
SeqsOf(S, lo, hi) == UNION {[1..n -> S] : n \in lo..hi}

\* ------------------------------------------------------------ floats
\* A float is Fin(m, e) = m * 10^e with m not divisible by 10 (0 is Fin(0,0)),
\* an infinity, or NaN.  FloatError stands for float() raising ValueError.
FloatError == [kind |-> "ValueError"]
Inf(neg) == [kind |-> "inf", neg |-> neg]
NaN == [kind |-> "nan"]

RECURSIVE Norm(_, _)
Norm(m, e) ==
  IF m = 0 THEN [kind |-> "fin", m |-> 0, e |-> 0]
  ELSE IF m % 10 = 0 THEN Norm(m \div 10, e + 1)
  ELSE [kind |-> "fin", m |-> m, e |-> e]

Fin(m, e) == Norm(m, e)
Zero == Fin(0, 0)

\* x * 10^k, the product with a multiplier 1e3, 1e6, 1e9 or 1e12.
Scale(x, k) ==
  IF x.kind = "fin" THEN (IF x.m = 0 THEN x ELSE Fin(x.m, x.e + k)) ELSE x

IsNegative(x) ==
  \/ x.kind = "fin" /\ x.m < 0
  \/ x.kind = "inf" /\ x.neg

RECURSIVE DigitsVal(_)
DigitsVal(s) ==
  IF s = <<>> THEN 0 ELSE DigitsVal(Slice(s, 1, Len(s) - 1)) * 10 + DigitVal(s[Len(s)])

\* An unsigned decimal literal as float() reads it: digits with an optional
\* point, at least one digit ("12", "12.5", "12.", ".5").
IsUnsignedDecimal(s) ==
  LET ps == {i \in 1..Len(s) : s[i] = "."}
  IN /\ Cardinality(ps) <= 1
     /\ \A i \in 1..Len(s) : s[i] \in Digits \cup {"."}
     /\ \E i \in 1..Len(s) : s[i] \in Digits

UnsignedDecimalVal(s) ==
  LET ps == {i \in 1..Len(s) : s[i] = "."}
      p  == IF ps = {} THEN Len(s) + 1 ELSE CHOOSE i \in ps : TRUE
      ip == Slice(s, 1, p - 1)
      fp == Slice(s, p + 1, Len(s))
  IN Fin(DigitsVal(ip \o fp), 0 - Len(fp))

Negate(x) ==
  IF x.kind = "fin" THEN [x EXCEPT !.m = 0 - x.m]
  ELSE IF x.kind = "inf" THEN [x EXCEPT !.neg = ~x.neg]
  ELSE x

\* Python's float(s) for the strings of the inputs (no exponent letter, no
\* underscore and no surrounding whitespace occurs in them): an optional sign,
\* then "inf", "infinity" or "nan" in any letter case, or a decimal literal;
\* anything else raises ValueError.
PyFloatUnsigned(s) ==
  IF Lower(s) \in {<<"i", "n", "f">>, <<"i", "n", "f", "i", "n", "i", "t", "y">>}
  THEN Inf(FALSE)
  ELSE IF Lower(s) = <<"n", "a", "n">> THEN NaN
  ELSE IF IsUnsignedDecimal(s) THEN UnsignedDecimalVal(s)
  ELSE FloatError

PyFloat(s) ==
  IF s # <<>> /\ s[1] \in {"+", "-"}
  THEN LET r == PyFloatUnsigned(Tail(s))
       IN IF r = FloatError THEN r
          ELSE IF s[1] = "-" THEN Negate(r) ELSE r
  ELSE PyFloatUnsigned(s)

\* ------------------------------------------------------------ normalisers
\* multipliers of parse_hashcat_speed, as powers of ten.
hashcat_multipliers == ("k" :> 3) @@ ("M" :> 6) @@ ("G" :> 9) @@ ("T" :> 12)

\* multipliers of parse_john_speed, as powers of ten.
john_multipliers == ("K" :> 3) @@ ("M" :> 6) @@ ("G" :> 9)

\* The shared body of the two normalisers: speed_str[-1] raises IndexError on
\* the empty string and float() raises ValueError; the bare except returns 0.0.
SpeedWith(multipliers, speed_str) ==
  IF speed_str = <<>> THEN Zero
  ELSE LET last == speed_str[Len(speed_str)]
           f == IF last \in DOMAIN multipliers
                THEN PyFloat(Slice(speed_str, 1, Len(speed_str) - 1))
                ELSE PyFloat(speed_str)
       IN IF f = FloatError THEN Zero
          ELSE IF last \in DOMAIN multipliers THEN Scale(f, multipliers[last])
          ELSE f

parse_hashcat_speed(speed_str) == SpeedWith(hashcat_multipliers, speed_str)

parse_john_speed(speed_str) == SpeedWith(john_multipliers, speed_str)

\* ------------------------------------------------------------ parsers
\* hash_types of parse_hashcat_benchmark: mode code -> algorithm name.
hash_types ==
  (<<"0">> :> "MD5") @@ (<<"1", "0", "0">> :> "SHA1")
    @@ (<<"1", "4", "0", "0">> :> "SHA256") @@ (<<"3", "2", "0", "0">> :> "bcrypt")
    @@ (<<"1", "8", "0", "0">> :> "SHA512")

HS == <<"H", "/", "s">>
CS == <<"c", "/", "s">>

\* dict[key] = value
DictSet(d, key, value) == (key :> value) @@ d

EmptyDict == <<>>

\* The inner loop at mode-code position i of parts: the first j > i whose token
\* contains "H/s" gives the entry; none leaves results as they are.
HashcatEntryAt(results, parts, i) ==
  LET js == {j \in (i + 1)..Len(parts) : Contains(parts[j], HS)}
  IN IF js = {} THEN results
     ELSE LET j == CHOOSE x \in js : \A y \in js : x <= y
          IN DictSet(results, hash_types[parts[i]],
                     [speed_hs |-> parse_hashcat_speed(parts[j - 1]),
                      speed_formatted |-> parts[j - 1] \o <<" ">> \o parts[j]])

\* The loop over the tokens of one line, from token i on.
RECURSIVE HashcatParts(_, _, _)
HashcatParts(results, parts, i) ==
  IF i > Len(parts) THEN results
  ELSE HashcatParts(IF parts[i] \in DOMAIN hash_types
                    THEN HashcatEntryAt(results, parts, i)
                    ELSE results,
                    parts, i + 1)

HashcatLine(results, line) ==
  IF Contains(line, HS) THEN HashcatParts(results, SplitWs(line), 1) ELSE results

RECURSIVE HashcatLines(_, _)
HashcatLines(results, lines) ==
  IF lines = <<>> THEN results
  ELSE HashcatLines(HashcatLine(results, Head(lines)), Tail(lines))

parse_hashcat_benchmark(output) == HashcatLines(EmptyDict, SplitOn(output, "\n"))

\* Number of consecutive digits of s from position p on.
RECURSIVE DigitRun(_, _)
DigitRun(s, p) ==
  IF p <= Len(s) /\ s[p] \in Digits THEN 1 + DigitRun(s, p + 1) ELSE 0

RECURSIVE SpaceRun(_, _)
SpaceRun(s, p) ==
  IF p <= Len(s) /\ IsSpace(s[p]) THEN 1 + SpaceRun(s, p + 1) ELSE 0

\* The regular expression (\d+(?:\.\d+)?[KMG]?)\s*c/s under re.IGNORECASE,
\* tried at start position p.  Each greedy part is followed by something its
\* own characters cannot match, so the attempt at p has one way to succeed.
\* The result is <<end of group 1, end of the match>>, or <<>> for no match.
SpeedRegexAt(s, p) ==
  LET n1 == DigitRun(s, p)
      q1 == p + n1
      nf == IF q1 <= Len(s) /\ s[q1] = "." THEN DigitRun(s, q1 + 1) ELSE 0
      q2 == IF nf > 0 THEN q1 + 1 + nf ELSE q1
      q3 == IF q2 <= Len(s) /\ LowerChar(s[q2]) \in {"k", "m", "g"}
            THEN q2 + 1 ELSE q2
      q4 == q3 + SpaceRun(s, q3)
  IN IF n1 > 0 /\ MatchesAt(Lower(s), CS, q4) THEN <<q3 - 1, q4 + 2>> ELSE <<>>

\* re.search: the match at the leftmost start position, as
\* [group1, group0], or <<>> (None).
SpeedRegexSearch(s) ==
  LET ps == {p \in 1..Len(s) : SpeedRegexAt(s, p) # <<>>}
  IN IF ps = {} THEN <<>>
     ELSE LET p == CHOOSE x \in ps : \A y \in ps : x <= y
              m == SpeedRegexAt(s, p)
          IN [group1 |-> Slice(s, p, m[1]), group0 |-> Slice(s, p, m[2])]

\* The text the speed is searched in: parts[1] of line.split(':'), stripped.
JohnSpeedPart(line) == Strip(SplitOn(line, ":")[2])

JohnLine(results, line) ==
  IF Contains(Lower(line), CS) /\ Contains(line, <<":">>)
  THEN LET hash_type == Strip(SplitOn(line, ":")[1])
           speed_match == SpeedRegexSearch(JohnSpeedPart(line))
       IN IF speed_match = <<>> THEN results
          ELSE DictSet(results, hash_type,
                       [speed_cs |-> parse_john_speed(speed_match.group1),
                        speed_formatted |-> speed_match.group0])
  ELSE results

RECURSIVE JohnLines(_, _)
JohnLines(results, lines) ==
  IF lines = <<>> THEN results
  ELSE JohnLines(JohnLine(results, Head(lines)), Tail(lines))

parse_john_benchmark(output) == JohnLines(EmptyDict, SplitOn(output, "\n"))

\* ------------------------------------------------------------ host facts
\* What one subprocess.run call can do: return with exit code 0 or another
\* code, or raise TimeoutExpired, FileNotFoundError, another OSError, or the
\* KeyboardInterrupt of an interrupt delivered while it waits.
RunOutcomes == {"exit0", "nonzero", "timeout", "notfound", "error", "interrupt"}

\* gather_system_info (in the constructor).  cpu and mem: the /proc file is
\* read and matched ("read"), is missing or does not match ("missing"), or
\* reading it raises ("ioerror"), which jumps to the outer except and skips
\* what follows.  gpu: the nvidia-smi run.
FactOutcomes == {"read", "missing", "ioerror"}

SystemInfoAfter(cpu, mem, gpu) ==
  LET base == ("timestamp" :> "now") @@ ("platform" :> "linux")
      i1 == IF cpu = "read" THEN DictSet(base, "cpu", "cpu model") ELSE base
      i2 == IF mem = "read" THEN DictSet(i1, "memory_gb", "n") ELSE i1
      i3 == IF gpu = "exit0" THEN DictSet(i2, "gpu", "gpu name")
            ELSE IF gpu = "nonzero" THEN i2
            ELSE DictSet(i2, "gpu", "Not available")
  IN IF cpu = "ioerror" THEN base
     ELSE IF mem = "ioerror" THEN i1
     ELSE i3

\* How main (line 380) and print_summary (line 335) present the accelerator:
\* sys_info.get('gpu', 'Unknown').
GpuPresented(info) == IF "gpu" \in DOMAIN info THEN info["gpu"] ELSE "Unknown"

\* ------------------------------------------------------------ inputs
\* Characters of the strings handed to the speed normalisers: digits, the
\* point, a sign, the suffixes of both tables in both spellings, and the
\* letters of "inf".
SpeedChars == {"0", "1", "5", ".", "-", "k", "K", "M", "G", "T", "i", "n", "f"}

SpeedStrings == SeqsOf(SpeedChars, 0, MaxStrLen)

\* Tokens of generated hashcat benchmark lines: mode codes, numbers with and
\* without an attached suffix, a negative number, unit markers.
HashcatVocab ==
  { <<"0">>, <<"1", "0", "0">>, <<"1", "2", ".", "4">>, <<"1", "2", ".", "4", "M">>,
    <<"-", "5">>, <<"M", "H", "/", "s">>, <<"H", "/", "s">> }

\* Tokens of generated john benchmark lines: a label, the colon, numbers with
\* suffixes in both letter cases, unit markers in both letter cases.
JohnVocab ==
  { <<"R", "a", "w">>, <<":">>, <<"3", "4">>, <<"1", ".", "5", "K">>, <<"5", "k">>,
    <<"c", "/", "s">>, <<"C", "/", "S">> }

LinesOver(vocab) == {Join(ts, <<" ">>) : ts \in SeqsOf(vocab, 0, MaxToks)}

OutputsOver(vocab) == {Join(ls, <<"\n">>) : ls \in SeqsOf(LinesOver(vocab), 1, MaxLines)}

ParseInputs ==
  [fn : {"parse_hashcat_speed", "parse_john_speed"}, text : SpeedStrings]
    \cup [fn : {"parse_hashcat_benchmark"}, text : OutputsOver(HashcatVocab)]
    \cup [fn : {"parse_john_benchmark"}, text : OutputsOver(JohnVocab)]
    \cup [fn : {"gather_system_info"}, cpu : FactOutcomes, mem : FactOutcomes,
          gpu : RunOutcomes]

\* ------------------------------------------------------------ state
VARIABLES
  call,               \* ParseSpec: the pending or finished call [fn, arguments]
  ret,                \* ParseSpec: its return value, NoValue while pending
  pc,                 \* main: the step about to run, or "exit"
  json_only,          \* args.json_only
  system_info,        \* self.system_info
  probe,              \* what each version query did (tool -> outcome)
  hashcat_available,  \* generate_report's locals
  john_available,
  report,             \* the report dict generate_report builds
  results,            \* run_attack_performance_test's results dict
  runner,             \* run_attack_performance_test: idle, active, returned, raised
  main_report,        \* main's `report`, NoValue until generate_report returns
  files,              \* which files of this run exist on disk, and how complete
  trace,              \* subprocess launches and delivered interrupts, in order
  exc,                \* the exception that left its function, [type, origin]
  exit_status,        \* the process exit status once pc = "exit"
  exit_path           \* normal, interrupt (lines 391-393), exception (394-396)

NoValue == [kind |-> "none"]

pvars == <<call, ret>>

rvars == <<pc, json_only, system_info, probe, hashcat_available, john_available,
           report, results, runner, main_report, files, trace, exc,
           exit_status, exit_path>>

vars == <<call, ret, pc, json_only, system_info, probe, hashcat_available,
          john_available, report, results, runner, main_report, files, trace,
          exc, exit_status, exit_path>>

NoCall == [fn |-> "none", text |-> <<>>]

NoExc == [type |-> "none", origin |-> "none"]

FileNames == {"hash_file", "wordlist_file", "json_file", "csv_file"}

\* The state at the start of main(), before the constructor runs.
RunStart ==
  /\ pc = "construct"
  /\ system_info = EmptyDict
  /\ probe = [t \in {"hashcat", "john"} |-> "none"]
  /\ hashcat_available = FALSE
  /\ john_available = FALSE
  /\ report = NoValue
  /\ results = EmptyDict
  /\ runner = "idle"
  /\ main_report = NoValue
  /\ files = [f \in FileNames |-> "absent"]
  /\ trace = <<>>
  /\ exc = NoExc
  /\ exit_status = 0
  /\ exit_path = "none"

\* ------------------------------------------------------------ ParseSpec
ParseInit ==
  /\ call \in ParseInputs
  /\ ret = NoValue
  /\ json_only = FALSE
  /\ RunStart

CallParseHashcatSpeed ==
  /\ ret = NoValue
  /\ call.fn = "parse_hashcat_speed"
  /\ ret' = parse_hashcat_speed(call.text)
  /\ UNCHANGED <<call, rvars>>

CallParseJohnSpeed ==
  /\ ret = NoValue
  /\ call.fn = "parse_john_speed"
  /\ ret' = parse_john_speed(call.text)
  /\ UNCHANGED <<call, rvars>>

CallParseHashcatBenchmark ==
  /\ ret = NoValue
  /\ call.fn = "parse_hashcat_benchmark"
  /\ ret' = [kind |-> "dict", d |-> parse_hashcat_benchmark(call.text)]
  /\ UNCHANGED <<call, rvars>>

CallParseJohnBenchmark ==
  /\ ret = NoValue
  /\ call.fn = "parse_john_benchmark"
  /\ ret' = [kind |-> "dict", d |-> parse_john_benchmark(call.text)]
  /\ UNCHANGED <<call, rvars>>

\* gather_system_info on a host whose three facts behave as call says.
CallGatherSystemInfo ==
  /\ ret = NoValue
  /\ call.fn = "gather_system_info"
  /\ ret' = [kind |-> "dict", d |-> SystemInfoAfter(call.cpu, call.mem, call.gpu)]
  /\ UNCHANGED <<call, rvars>>

ParseNext ==
  \/ CallParseHashcatSpeed
  \/ CallParseJohnSpeed
  \/ CallParseHashcatBenchmark
  \/ CallParseJohnBenchmark
  \/ CallGatherSystemInfo

ParseSpec == ParseInit /\ [][ParseNext]_vars

\* ------------------------------------------------------------ the run
Completed(o) == o \in {"exit0", "nonzero"}

ExcType(o) ==
  CASE o = "timeout" -> "TimeoutExpired"
    [] o = "notfound" -> "FileNotFoundError"
    [] o = "interrupt" -> "KeyboardInterrupt"
    [] OTHER -> "OSError"

\* `except:` catches every exception, KeyboardInterrupt included.
BareExceptCatches(o) == TRUE

\* `except subprocess.TimeoutExpired` and `except Exception` together catch
\* everything but KeyboardInterrupt, which is a BaseException only.
ExceptExceptionCatches(o) == o # "interrupt"

\* A probe that counts only exit code 0 as available.
ToolAvailableOnExitZero(o) == o = "exit0"

\* hashcat_available / john_available after one probe: True when
\* subprocess.run returned (any exit code), the initial False otherwise.
ToolAvailable(o) == Completed(o)

\* The attack tests run whatever the probes said.
AlwaysRunAttackTests(h, j) == TRUE

\* The guard of line 290.
ShouldRunAttackTests(h, j) == h \/ j

LaunchNames ==
  {"nvidia-smi", "probe_hashcat", "probe_john", "bench_hashcat", "bench_john",
   "attack_hashcat", "attack_john"}

\* The trace entries of one subprocess.run call.
Launch(name, o) == <<name>> \o (IF o = "interrupt" THEN <<"SIGINT">> ELSE <<>>)

\* Captured benchmark output of a hashcat run that exits 0:
\* "", "0 12.4 MH/s", "100 12.4M H/s".
HashcatStdout ==
  { <<>>,
    <<"0", " ", "1", "2", ".", "4", " ", "M", "H", "/", "s">>,
    <<"1", "0", "0", " ", "1", "2", ".", "4", "M", " ", "H", "/", "s">> }

\* Captured stdout + stderr of a john benchmark run:
\* "", "Raw : 34 c/s", "Raw : 5k c/s".
JohnStdout ==
  { <<>>,
    <<"R", "a", "w", " ", ":", " ", "3", "4", " ", "c", "/", "s">>,
    <<"R", "a", "w", " ", ":", " ", "5", "k", " ", "c", "/", "s">> }

\* Writing one file with `with open(path, 'w') as f: ...`: it succeeds, open
\* raises (nothing created), a write raises after open created the file, or an
\* interrupt is delivered while writing.
WriteOutcomes == {"ok", "open_error", "write_error", "interrupt"}

FileAfterWrite(old, w) ==
  CASE w = "ok" -> "complete"
    [] w = "open_error" -> old
    [] OTHER -> "partial"

WriteExcType(w) == IF w = "interrupt" THEN "KeyboardInterrupt" ELSE "OSError"

\* The trace entries of one write; `failed` names an OSError of that write.
WriteEvents(w, failed) ==
  CASE w = "ok" -> <<>>
    [] w = "interrupt" -> <<"SIGINT">>
    [] OTHER -> <<failed>>

\* os.remove: the file is removed, OSError is raised (the file stays), or an
\* interrupt is delivered.
RemoveOutcomes == {"ok", "error", "interrupt"}

Continue(next) ==
  /\ pc' = next
  /\ UNCHANGED <<exc, exit_status, exit_path>>

\* An exception reaches main's handlers (lines 391-396): both exit with 1.
Abort(type, origin) ==
  /\ pc' = "exit"
  /\ exc' = [type |-> type, origin |-> origin]
  /\ exit_status' = 1
  /\ exit_path' = IF type = "KeyboardInterrupt" THEN "interrupt" ELSE "exception"

ExitNormally ==
  /\ pc' = "exit"
  /\ exit_status' = 0
  /\ exit_path' = "normal"
  /\ UNCHANGED exc

\* gather_system_info, run by the constructor (line 21).
GatherSystemInfo ==
  /\ pc = "construct"
  /\ \E cpu \in FactOutcomes, mem \in FactOutcomes, gpu \in RunOutcomes :
       /\ system_info' = SystemInfoAfter(cpu, mem, gpu)
       /\ trace' = IF cpu = "ioerror" \/ mem = "ioerror" THEN trace
                   ELSE trace \o <<"nvidia-smi">>
  /\ pc' = "probe_hashcat"
  /\ UNCHANGED <<call, ret, json_only, probe, hashcat_available, john_available,
                 report, results, runner, main_report, files, exc, exit_status,
                 exit_path>>

\* check_tool_availability, first try block (lines 67-71).
ProbeHashcat ==
  /\ pc = "probe_hashcat"
  /\ \E o \in RunOutcomes :
       /\ probe' = [probe EXCEPT !.hashcat = o]
       /\ trace' = trace \o Launch("probe_hashcat", o)
       /\ IF Completed(o) \/ BareExceptCatches(o)
          THEN /\ hashcat_available' = ToolAvailable(o)
               /\ Continue("probe_john")
          ELSE /\ Abort(ExcType(o), "probe_hashcat")
               /\ UNCHANGED hashcat_available
  /\ UNCHANGED <<call, ret, json_only, system_info, john_available, report,
                 results, runner, main_report, files>>

\* check_tool_availability, second try block (lines 73-79), and the report
\* skeleton of generate_report (lines 271-282).
ProbeJohn ==
  /\ pc = "probe_john"
  /\ \E o \in RunOutcomes :
       /\ probe' = [probe EXCEPT !.john = o]
       /\ trace' = trace \o Launch("probe_john", o)
       /\ IF Completed(o) \/ BareExceptCatches(o)
          THEN /\ john_available' = ToolAvailable(o)
               /\ report' =
                    [metadata |->
                       [timestamp |-> "ts",
                        system_info |-> system_info,
                        tools_available |->
                          [hashcat |-> hashcat_available,
                           john_the_ripper |-> ToolAvailable(o)]],
                     benchmarks |-> EmptyDict,
                     performance_tests |-> EmptyDict]
               /\ Continue("bench_hashcat")
          ELSE /\ Abort(ExcType(o), "probe_john")
               /\ UNCHANGED <<john_available, report>>
  /\ UNCHANGED <<call, ret, json_only, system_info, hashcat_available, results,
                 runner, main_report, files>>

\* Lines 284-285 with benchmark_hashcat (lines 81-100).
BenchmarkHashcat ==
  /\ pc = "bench_hashcat"
  /\ IF ~hashcat_available
     THEN /\ Continue("bench_john")
          /\ UNCHANGED <<report, trace>>
     ELSE \E o \in RunOutcomes, out \in HashcatStdout :
            /\ trace' = trace \o Launch("bench_hashcat", o)
            /\ IF Completed(o) \/ ExceptExceptionCatches(o)
               THEN /\ report' =
                         [report EXCEPT !.benchmarks =
                            DictSet(@, "hashcat",
                                    IF o = "exit0" THEN parse_hashcat_benchmark(out)
                                    ELSE EmptyDict)]
                    /\ Continue("bench_john")
               ELSE /\ Abort(ExcType(o), "bench_hashcat")
                    /\ UNCHANGED report
  /\ UNCHANGED <<call, ret, json_only, system_info, probe, hashcat_available,
                 john_available, results, runner, main_report, files>>

\* Lines 287-291 with benchmark_john (lines 147-162): the john benchmark when
\* john is available, then either the call of run_attack_performance_test or
\* the return of generate_report.
BenchmarkJohn ==
  /\ pc = "bench_john"
  /\ \E o \in RunOutcomes, out \in JohnStdout :
       LET raised == john_available /\ ~Completed(o) /\ ~ExceptExceptionCatches(o)
           rep == IF john_available
                  THEN [report EXCEPT !.benchmarks =
                          DictSet(@, "john_the_ripper",
                                  IF Completed(o) THEN parse_john_benchmark(out)
                                  ELSE EmptyDict)]
                  ELSE report
       IN /\ trace' = IF john_available THEN trace \o Launch("bench_john", o)
                      ELSE trace
          /\ IF raised
             THEN /\ Abort(ExcType(o), "bench_john")
                  /\ UNCHANGED <<report, runner, main_report>>
             ELSE /\ report' = rep
                  /\ IF ShouldRunAttackTests(hashcat_available, john_available)
                     THEN /\ runner' = "active"
                          /\ Continue("write_hashes")
                          /\ UNCHANGED main_report
                     ELSE /\ main_report' = rep
                          /\ Continue("save_json")
                          /\ UNCHANGED runner
  /\ UNCHANGED <<call, ret, json_only, system_info, probe, hashcat_available,
                 john_available, results, files>>

\* One fixture write of run_attack_performance_test (lines 213-216 and
\* 219-223): outside every try block, so a failure leaves the runner.
WriteFixture(at, file, next) ==
  /\ pc = at
  /\ \E w \in WriteOutcomes :
       /\ files' = [files EXCEPT ![file] = FileAfterWrite(@, w)]
       /\ trace' = trace \o WriteEvents(w, "fixture_write_failed")
       /\ IF w = "ok"
          THEN /\ Continue(next)
               /\ UNCHANGED runner
          ELSE /\ Abort(WriteExcType(w), at)
               /\ runner' = "raised"
  /\ UNCHANGED <<call, ret, json_only, system_info, probe, hashcat_available,
                 john_available, report, results, main_report>>

WriteHashFile == WriteFixture("write_hashes", "hash_file", "write_wordlist")

WriteWordlist == WriteFixture("write_wordlist", "wordlist_file", "attack_hashcat")

\* The result entry of one dictionary attack (lines 236-241, 251-256).
AttackEntry(o, elapsed) ==
  IF Completed(o)
  THEN [time_seconds |-> elapsed, success |-> o = "exit0"]
  ELSE [time_seconds |-> 0, success |-> FALSE]

\* One try block of run_attack_performance_test (lines 228-241, 244-256).
Attack(at, tool, key, next) ==
  /\ pc = at
  /\ \E o \in RunOutcomes, elapsed \in 1..MaxElapsed :
       /\ trace' = trace \o Launch(tool, o)
       /\ IF Completed(o) \/ BareExceptCatches(o)
          THEN /\ results' = DictSet(results, key, AttackEntry(o, elapsed))
               /\ Continue(next)
               /\ UNCHANGED runner
          ELSE /\ Abort(ExcType(o), at)
               /\ runner' = "raised"
               /\ UNCHANGED results
  /\ UNCHANGED <<call, ret, json_only, system_info, probe, hashcat_available,
                 john_available, report, main_report, files>>

AttackHashcat ==
  Attack("attack_hashcat", "attack_hashcat", "hashcat_dictionary", "attack_john")

AttackJohn == Attack("attack_john", "attack_john", "john_dictionary", "cleanup")

\* The files after the cleanup block (lines 259-263): the second os.remove
\* runs only when the first returned.
FilesAfterCleanup(fs, r1, r2) ==
  IF r1 # "ok" THEN fs
  ELSE IF r2 # "ok" THEN [fs EXCEPT !["hash_file"] = "absent"]
  ELSE [fs EXCEPT !["hash_file"] = "absent", !["wordlist_file"] = "absent"]

\* Cleanup, the return of run_attack_performance_test (line 265) and the
\* return of generate_report (lines 291-293).
Cleanup ==
  /\ pc = "cleanup"
  /\ \E r1 \in RemoveOutcomes, r2 \in RemoveOutcomes :
       /\ files' = FilesAfterCleanup(files, r1, r2)
       /\ trace' = trace \o
            (IF r1 = "interrupt" \/ (r1 = "ok" /\ r2 = "interrupt")
             THEN <<"SIGINT">> ELSE <<>>)
  /\ runner' = "returned"
  /\ report' = [report EXCEPT !.performance_tests = results]
  /\ main_report' = report'
  /\ Continue("save_json")
  /\ UNCHANGED <<call, ret, json_only, system_info, probe, hashcat_available,
                 john_available, results>>

\* One `with open(...)` block of save_results (lines 298-300, 303-318).
SaveFile(at, file) ==
  /\ pc = at
  /\ \E w \in WriteOutcomes :
       /\ files' = [files EXCEPT ![file] = FileAfterWrite(@, w)]
       /\ trace' = trace \o WriteEvents(w, "report_write_failed")
       /\ IF w # "ok" THEN Abort(WriteExcType(w), at)
          ELSE IF at = "save_json" THEN Continue("save_csv")
          ELSE IF json_only THEN ExitNormally
          ELSE Continue("print_summary")
  /\ UNCHANGED <<call, ret, json_only, system_info, probe, hashcat_available,
                 john_available, report, results, runner, main_report>>

SaveJson == SaveFile("save_json", "json_file")

SaveCsv == SaveFile("save_csv", "csv_file")

\* print_summary (lines 324-363) and the normal end of main.
PrintSummary ==
  /\ pc = "print_summary"
  /\ ExitNormally
  /\ UNCHANGED <<call, ret, json_only, system_info, probe, hashcat_available,
                 john_available, report, results, runner, main_report, files,
                 trace>>

\* The steps before which control is in code that no try block of the class
\* protects (between the try blocks of lines 228-263 there is no statement).
InterruptiblePcs ==
  {"probe_hashcat", "probe_john", "bench_hashcat", "bench_john", "write_hashes",
   "write_wordlist", "attack_hashcat", "save_json", "save_csv", "print_summary"}

\* An interrupt delivered between two steps: only main's handler (lines
\* 391-393) catches it.
Interrupt ==
  /\ pc \in InterruptiblePcs
  /\ trace' = trace \o <<"SIGINT">>
  /\ Abort("KeyboardInterrupt", "between_steps")
  /\ runner' = IF runner = "active" THEN "raised" ELSE runner
  /\ UNCHANGED <<call, ret, json_only, system_info, probe, hashcat_available,
                 john_available, report, results, main_report, files>>

Init ==
  /\ call = NoCall
  /\ ret = NoValue
  /\ json_only \in BOOLEAN
  /\ RunStart

Next ==
  \/ GatherSystemInfo
  \/ ProbeHashcat
  \/ ProbeJohn
  \/ BenchmarkHashcat
  \/ BenchmarkJohn
  \/ WriteHashFile
  \/ WriteWordlist
  \/ AttackHashcat
  \/ AttackJohn
  \/ Cleanup
  \/ SaveJson
  \/ SaveCsv
  \/ PrintSummary
  \/ Interrupt

Spec == Init /\ [][Next]_vars

\* ------------------------------------------------------------ properties
InTrace(e) == \E i \in 1..Len(trace) : trace[i] = e

ReportFilesAbsent == files["json_file"] = "absent" /\ files["csv_file"] = "absent"

\* C1: once run_attack_performance_test has ended, by return or by an
\* exception, neither temporary fixture file exists any more.
C1_FixturesRemovedOnEveryExit ==
  runner \in {"returned", "raised"} =>
    files["hash_file"] = "absent" /\ files["wordlist_file"] = "absent"

\* A decimal number: an optional sign, digits, an optional point.
IsDecimalNumber(s) ==
  IF s # <<>> /\ s[1] \in {"+", "-"} THEN IsUnsignedDecimal(Tail(s))
  ELSE IsUnsignedDecimal(s)

DecimalNumberVal(s) ==
  IF s[1] = "-" THEN Negate(UnsignedDecimalVal(Tail(s)))
  ELSE IF s[1] = "+" THEN UnsignedDecimalVal(Tail(s))
  ELSE UnsignedDecimalVal(s)

\* Line l of the output is the last one a parser looking for `marker` (in
\* lower case) reads an entry from.
LastMarkedLine(lines, l, marker) ==
  \A k \in (l + 1)..Len(lines) : ~Contains(Lower(lines[k]), marker)

\* C2: a line with a known mode code followed later by "<number> <suffix>H/s"
\* maps the algorithm name to number x multiplier[suffix] and to the display
\* string "<number> <suffix>H/s"; "0 ... 12.4 MH/s" gives MD5 -> 12.4e6.
C2_GrammarAScalesBySuffix ==
  (call.fn = "parse_hashcat_benchmark" /\ ret # NoValue) =>
    LET lines == SplitOn(call.text, "\n")
    IN \A l \in 1..Len(lines) :
         LET parts == SplitWs(lines[l])
         IN \A i \in 1..Len(parts), j \in 1..Len(parts) :
              ( /\ LastMarkedLine(lines, l, <<"h", "/", "s">>)
                /\ parts[i] \in DOMAIN hash_types
                /\ \A k \in (i + 1)..Len(parts) : parts[k] # parts[i]
                /\ j > i + 1
                /\ \A k \in (i + 1)..(j - 1) : ~Contains(parts[k], HS)
                /\ \E sfx \in DOMAIN hashcat_multipliers : parts[j] = <<sfx>> \o HS
                /\ IsUnsignedDecimal(parts[j - 1]) )
              => /\ hash_types[parts[i]] \in DOMAIN ret.d
                 /\ ret.d[hash_types[parts[i]]] =
                      [speed_hs |->
                         Scale(UnsignedDecimalVal(parts[j - 1]),
                               hashcat_multipliers[parts[j][1]]),
                       speed_formatted |-> parts[j - 1] \o <<" ">> \o parts[j]]

\* The case-insensitive scaling C3 speaks of: K, M, G in either letter case.
AnyCaseJohnValue(s) ==
  LET last == LowerChar(s[Len(s)])
  IN IF last \in {"k", "m", "g"}
     THEN Scale(UnsignedDecimalVal(Slice(s, 1, Len(s) - 1)),
                CASE last = "k" -> 3 [] last = "m" -> 6 [] last = "g" -> 9)
     ELSE UnsignedDecimalVal(s)

\* C3: a line with "c/s" (any case) and a colon maps the trimmed text before
\* the first colon to the first "<number>[K/M/G] c/s" run anywhere after that
\* colon, the suffix scaled whatever its letter case.
C3_GrammarBFirstColonAnyCase ==
  (call.fn = "parse_john_benchmark" /\ ret # NoValue) =>
    LET lines == SplitOn(call.text, "\n")
    IN \A l \in 1..Len(lines) :
         LET line == lines[l]
             fields == SplitOn(line, ":")
             label == Strip(fields[1])
             remainder == Join(Tail(fields), <<":">>)
             m == SpeedRegexSearch(remainder)
         IN ( /\ LastMarkedLine(lines, l, CS)
              /\ Contains(Lower(line), CS)
              /\ Contains(line, <<":">>)
              /\ m # <<>> )
            => /\ label \in DOMAIN ret.d
               /\ ret.d[label] = [speed_cs |-> AnyCaseJohnValue(m.group1),
                                  speed_formatted |-> m.group0]

\* What C4 expects of a normaliser with the given suffix table.
ExpectedSpeed(multipliers, s) ==
  IF IsDecimalNumber(s) THEN DecimalNumberVal(s)
  ELSE IF /\ s # <<>>
          /\ s[Len(s)] \in DOMAIN multipliers
          /\ IsDecimalNumber(Slice(s, 1, Len(s) - 1))
       THEN Scale(DecimalNumberVal(Slice(s, 1, Len(s) - 1)), multipliers[s[Len(s)]])
  ELSE Zero

\* C4: each normaliser returns number x multiplier for a decimal number with an
\* optional suffix of its own table, and 0.0 for every other string.
C4_NormalizersExactOrZero ==
  /\ (call.fn = "parse_hashcat_speed" /\ ret # NoValue) =>
       ret = ExpectedSpeed(hashcat_multipliers, call.text)
  /\ (call.fn = "parse_john_speed" /\ ret # NoValue) =>
       ret = ExpectedSpeed(john_multipliers, call.text)

BothProbed == probe["hashcat"] # "none" /\ probe["john"] # "none"

BothUnavailable == BothProbed /\ ~hashcat_available /\ ~john_available

\* C5: when both tools are reported unavailable, no benchmark or attack
\* subprocess is launched, no fixture file is created, and the report that
\* generate_report returns has empty 'benchmarks' and 'performance_tests' and
\* carries the collected host context.
C5_NothingRunWithoutTools ==
  BothUnavailable =>
    /\ \A e \in {"bench_hashcat", "bench_john", "attack_hashcat", "attack_john"} :
         ~InTrace(e)
    /\ files["hash_file"] = "absent" /\ files["wordlist_file"] = "absent"
    /\ runner = "idle"
    /\ (pc \in {"save_json", "save_csv", "print_summary"} \/ exit_path = "normal")
         => main_report # NoValue
    /\ main_report # NoValue =>
         /\ main_report.benchmarks = EmptyDict
         /\ main_report.performance_tests = EmptyDict
         /\ main_report.metadata.system_info = system_info
         /\ {"timestamp", "platform"} \subseteq DOMAIN main_report.metadata.system_info
         /\ main_report.metadata.tools_available =
              [hashcat |-> FALSE, john_the_ripper |-> FALSE]

C5_Witness ==
  /\ BothUnavailable
  /\ main_report # NoValue
  /\ pc = "exit"
  /\ exit_status = 0

\* C6: a tool has a benchmark entry and an attack-result entry only if it was
\* marked available, and no dictionary attack is attempted with a tool marked
\* unavailable, also when the other tool is available.
C6_EntriesOnlyForAvailableTools ==
  BothProbed =>
    /\ InTrace("attack_hashcat") => hashcat_available
    /\ InTrace("attack_john") => john_available
    /\ main_report # NoValue =>
         /\ "hashcat" \in DOMAIN main_report.benchmarks => hashcat_available
         /\ "john_the_ripper" \in DOMAIN main_report.benchmarks => john_available
         /\ "hashcat_dictionary" \in DOMAIN main_report.performance_tests
              => hashcat_available
         /\ "john_dictionary" \in DOMAIN main_report.performance_tests
              => john_available

\* C7: an interrupt delivered during the run aborts it at once: main leaves by
\* its interrupt path with a non-zero status, nothing is launched after the
\* interrupt and no report file is written.
C7_InterruptAbortsAtOnce ==
  InTrace("SIGINT") =>
    /\ pc = "exit"
    /\ exit_path = "interrupt"
    /\ exit_status # 0
    /\ \A i \in 1..Len(trace), j \in 1..Len(trace) :
         (trace[i] = "SIGINT" /\ i < j) => trace[j] \notin LaunchNames
    /\ ReportFilesAbsent

\* C8: when main ends with a non-zero status, neither the JSON report nor the
\* CSV summary exists, in whole or in part.
C8_NoReportFileOnFatalExit ==
  (pc = "exit" /\ exit_status # 0) => ReportFilesAbsent

\* C9: a failed fixture write does not leave the runner as an exception; the
\* attack scenarios are recorded as {time_seconds: 0, success: False} and the
\* report is returned and saved.
C9_FixtureWriteFailureContained ==
  InTrace("fixture_write_failed") =>
    /\ runner # "raised"
    /\ exc.origin \notin {"write_hashes", "write_wordlist"}
    /\ (pc = "exit" /\ ~InTrace("SIGINT") /\ ~InTrace("report_write_failed")) =>
         /\ main_report # NoValue
         /\ \E k \in DOMAIN main_report.performance_tests :
              main_report.performance_tests[k] = [time_seconds |-> 0, success |-> FALSE]
         /\ files["json_file"] = "complete"
         /\ files["csv_file"] = "complete"

\* C10: each probe yields False when the version query is not found, times out
\* or raises anything else, and True when it runs to completion with any exit
\* code; one tool's answer does not depend on the other's query, and no
\* outcome of a query leaves check_tool_availability as an exception.
C10_ProbeAbsorbsEveryOutcome ==
  /\ probe["hashcat"] \in {"exit0", "nonzero"} => hashcat_available
  /\ probe["hashcat"] \in {"notfound", "timeout", "error", "interrupt"}
       => ~hashcat_available
  /\ probe["john"] \in {"exit0", "nonzero"} => john_available
  /\ probe["john"] \in {"notfound", "timeout", "error", "interrupt"}
       => ~john_available
  /\ probe["hashcat"] # "none" => pc # "probe_hashcat"
  /\ exc.origin \notin {"probe_hashcat", "probe_john"}

C10_Witness ==
  /\ probe["hashcat"] = "nonzero"
  /\ hashcat_available
  /\ probe["john"] = "timeout"
  /\ ~john_available
  /\ pc = "bench_hashcat"

\* C11: every numeric rate a parser stores (speed_hs, speed_cs) is
\* non-negative, whatever the input text, a token "-5" before the H/s marker
\* included.
C11_RatesNonNegative ==
  /\ (call.fn = "parse_hashcat_benchmark" /\ ret # NoValue) =>
       \A k \in DOMAIN ret.d : ~IsNegative(ret.d[k].speed_hs)
  /\ (call.fn = "parse_john_benchmark" /\ ret # NoValue) =>
       \A k \in DOMAIN ret.d : ~IsNegative(ret.d[k].speed_cs)

\* C12: the three host facts are collected independently (a fact that is
\* readable is collected whatever happened to the others), gather_system_info
\* returns its dict without raising, and an accelerator whose name was not
\* obtained is presented as 'Not available'.
C12_HostFactsIndependent ==
  (call.fn = "gather_system_info" /\ ret # NoValue) =>
    /\ ret.kind = "dict"
    /\ call.cpu = "read" => "cpu" \in DOMAIN ret.d
    /\ call.mem = "read" => "memory_gb" \in DOMAIN ret.d
    /\ call.gpu = "exit0" => GpuPresented(ret.d) = "gpu name"
    /\ call.gpu # "exit0" => GpuPresented(ret.d) = "Not available"

=============================================================================
